---- MODULE Spec2Model ----
(***************************************************************************)
(* A model of libHPTimer (HighPerTimer.h / HighPerTimer.cpp /              *)
(* TimeHardware.cpp): the HighPerTimer value type with its range-checked   *)
(* arithmetic, the time-source read path behind Now(), the interruptible   *)
(* hybrid sleep (condition-variable wait plus busy-wait), and the process  *)
(* initialisation: source selection, the /dev/hpet descriptor, the TSC     *)
(* frequency measurement and the kernel-HZ discovery.                      *)
(*                                                                         *)
(* Integers are scaled: int64_t / uint64_t are INT64_BITS wide and the     *)
(* decimal constants (10^9, 10^6, 10^3, 10^15) are scaled with them, so    *)
(* that every wrap-around, bound and carry of the code happens inside the  *)
(* range TLC can enumerate.  Arithmetic keeps the C++ rules: unsigned      *)
(* arithmetic is modulo 2^INT64_BITS, mixed int64/uint64 expressions are   *)
(* evaluated unsigned, division truncates toward zero.                     *)
(***************************************************************************)
EXTENDS Integers, Sequences, FiniteSets, TLC

VARIABLES
    HPTimerSource,   \* HighPerTimer::HPTimerSource
    NsecPerTic,      \* HighPerTimer::NsecPerTic, a rational [num, den]
    TicsPerUsec,     \* HighPerTimer::TicsPerUsec
    UnixZeroShift,   \* HighPerTimer::UnixZeroShift
    HPJiffies,       \* HighPerTimer::HPJiffies: in nanoseconds where sleeps use it,
                     \* in seconds, a rational [num, den], where it is discovered
    InitFreqAttempt, \* InitFreqAttempt: repeated frequency measurements so far
    HasConstantTSC,  \* TSCTimer::HasConstantTSC: InitTSCTimer() succeeds
    HpetFd,          \* HPETTimer::HpetFd
    fdCloses,        \* per descriptor ::open has returned: the ::close calls on it
    jiffy,           \* locals of InitSecPerJiffy: i and the four counters; and the
                     \* trials made, the class of the latest and of the one before
    HPTimer_MAX,     \* HighPerTimer::HPTimer_MAX (a timer object)
    HPTimer_MIN,     \* HighPerTimer::HPTimer_MIN (a timer object)
    hwCounter,       \* the hardware counter: TSC, HPET main counter or CLOCK_MONOTONIC
    t,               \* the timer object the value operations act on
    res,             \* the last operation: name, arguments, outcome
    lastNow,         \* tick value returned by the last successful Now(), or NoNow
    opCount,         \* number of operations performed so far
    \* ---- sleep / interrupt ----
    mInterrupted,    \* per instance: HighPerTimer::mInterrupted
    mCancelled,      \* per instance: HighPerTimer::mCancelled
    HPmutex,         \* owner of the process-wide mutex, or NoThread
    HPcond,          \* the process-wide condition variable: threads blocked in wait_for
    pc,              \* per thread: position in USecSleep.. / Interrupt
    slp,             \* per sleeper thread: locals of the running sleep call
    intr,            \* per interrupter thread: locals of the running Interrupt call
    calls            \* per thread: number of calls started

calibVars == <<HPTimerSource, NsecPerTic, TicsPerUsec, UnixZeroShift, HPJiffies,
               InitFreqAttempt, HasConstantTSC, HpetFd, fdCloses, jiffy>>
sleepVars == <<mInterrupted, mCancelled, HPmutex, HPcond, pc, slp, intr, calls>>
vars == <<HPTimerSource, NsecPerTic, TicsPerUsec, UnixZeroShift, HPJiffies,
          InitFreqAttempt, HasConstantTSC, HpetFd, fdCloses, jiffy, HPTimer_MAX,
          HPTimer_MIN, hwCounter, t, res, lastNow, opCount, mInterrupted,
          mCancelled, HPmutex, HPcond, pc, slp, intr, calls>>

-----------------------------------------------------------------------------
(* Machine integers *)

\* width of int64_t / uint64_t in the scaled model
INT64_BITS == 12

TwoW == 2 ^ INT64_BITS

\* std::numeric_limits<int64_t>::max()
INT64_MAX == 2 ^ (INT64_BITS - 1) - 1

\* std::numeric_limits<int64_t>::min()
INT64_MIN == -(2 ^ (INT64_BITS - 1))

\* width of int32_t, scaled so that, as at full width, every int32_t value plus
\* UnixZeroShift lies inside the HPET bounds INT64_MAX / 120
INT32_BITS == INT64_BITS \div 3

\* conversion to uint64_t (modulo 2^w)
ToU64(x) == x % TwoW

\* conversion to int64_t (two's complement wrap)
ToI64(x) ==
    LET u == x % TwoW
    IN  IF u > INT64_MAX THEN u - TwoW ELSE u

\* C++ integer division, truncating toward zero (b > 0)
TruncDiv(a, b) == IF a >= 0 THEN a \div b ELSE -((-a) \div b)

\* static_cast<int64_t>(double): truncation.  A value outside int64_t is
\* undefined behaviour; it arises only with a NsecPerTic other than 1, that
\* is with TSC or HPET, which exist on x86 only, where cvttsd2si yields the
\* "integer indefinite" value INT64_MIN.
CastToInt64(x) ==
    IF x >= INT64_MIN /\ x <= INT64_MAX THEN x ELSE INT64_MIN

\* scaled 10^9, 10^6, 10^3 (ONE_BILLION = ONE_MILLION * ONE_THOUSAND) and 10^15
ONE_BILLION == 10
ONE_MILLION == 5
ONE_THOUSAND == 2
ONE_QUADRILLION == 100

\* the divisor narrowing the bounds for HPET
HPET_BOUND_DIVISOR == 120

-----------------------------------------------------------------------------
(* The HighPerTimer value: mHPTics and the lazily computed cache *)

\* a HighPerTimer object
Timer(tics, norm, sec, nsec, sign) ==
    [mHPTics |-> tics, mNormalized |-> norm, mSeconds |-> sec,
     mNSeconds |-> nsec, mSign |-> sign]

\* HighPerTimer(): zero tics, not normalized (the cache fields are not
\* initialised; they are not read while mNormalized is false)
DefaultTimer == Timer(0, FALSE, 0, 0, FALSE)

\* the outcome of a call: the receiver afterwards, and whether out_of_range was thrown
Ok(tm) == [tm |-> tm, threw |-> FALSE]
Throw(tm) == [tm |-> tm, threw |-> TRUE]

\* static_cast<int64_t>( mHPTics * NsecPerTic )
TicsToNSecs(tics) ==
    CastToInt64(TruncDiv(tics * NsecPerTic.num, NsecPerTic.den))

\* static_cast<int64_t>( nsecs / ( NsecPerTic + 1/ONE_QUADRILLION ) ), nsecs unsigned
NSecsToTics(nsecs) ==
    CastToInt64((nsecs * NsecPerTic.den * ONE_QUADRILLION)
                \div (NsecPerTic.num * ONE_QUADRILLION + NsecPerTic.den))

\* HighPerTimer::Normalize
Normalize(tm) ==
    IF tm.mNormalized THEN tm
    ELSE LET raw == TicsToNSecs(tm.mHPTics)
             toNSecs == IF raw < 0 THEN ToI64(-raw) ELSE raw
         IN  [tm EXCEPT !.mSign = (tm.mHPTics < 0),
                        !.mSeconds = ToI64(ToU64(toNSecs) \div ONE_BILLION),
                        !.mNSeconds = ToI64(ToU64(toNSecs) % ONE_BILLION),
                        !.mNormalized = TRUE]

\* HighPerTimer::Seconds, HighPerTimer::NSeconds, HighPerTimer::HPTics
Seconds(tm) == ToU64(Normalize(tm).mSeconds)
NSeconds(tm) == ToU64(Normalize(tm).mNSeconds)
HPTics(tm) == tm.mHPTics

\* HPTimer_MAX.Seconds() * ONE_BILLION + HPTimer_MAX.NSeconds()
MaxNSecs == ToU64(Seconds(HPTimer_MAX) * ONE_BILLION + NSeconds(HPTimer_MAX))

\* HighPerTimer::SetTics
SetTics(tm, v) ==
    IF (v <= HPTics(HPTimer_MAX)) \/ (v >= HPTics(HPTimer_MAX))
    THEN Ok([tm EXCEPT !.mHPTics = v, !.mNormalized = FALSE])
    ELSE Throw(tm)

\* HighPerTimer::HighPerTimer ( int64_t HPTics, bool Shift )
CtorTics(v, Shift) ==
    LET shiftOk == (HPTics(HPTimer_MAX) - UnixZeroShift >= v)
                   /\ (HPTics(HPTimer_MIN) + UnixZeroShift <= v)
        tics == IF Shift THEN v + UnixZeroShift ELSE v
    IN  IF Shift /\ ~shiftOk THEN Throw(DefaultTimer)
        ELSE IF (tics > HPTics(HPTimer_MAX)) \/ (tics < HPTics(HPTimer_MIN))
             THEN Throw(DefaultTimer)
             ELSE Ok(Timer(tics, FALSE, 0, 0, FALSE))

\* a ( Seconds, NSeconds, Sign ) constructor that stores its arguments without
\* carrying whole seconds out of NSeconds
CtorSecNSec_NoCarry(Sec, NSec, Sign) ==
    LET all == ToU64(Sec * ONE_BILLION + NSec)
        q == NSecsToTics(all)
    IN  IF Sec < 0 \/ NSec < 0 \/ all > MaxNSecs THEN Throw(DefaultTimer)
        ELSE Ok(Timer(IF Sign THEN ToI64(-q) ELSE q, TRUE, Sec, NSec, Sign))

\* HighPerTimer::HighPerTimer ( int64_t Seconds, int64_t NSeconds, bool Sign )
CtorSecNSec(Sec, NSec, Sign) ==
    LET sign == Sign \/ Sec < 0 \/ NSec < 0
        sec == IF Sec < 0 THEN ToI64(-Sec) ELSE Sec
        nsec == IF NSec < 0 THEN ToI64(-NSec) ELSE NSec
        mSec == ToI64(ToU64(sec) + (ToU64(nsec) \div ONE_BILLION))
        mNSec == ToI64(ToU64(nsec) % ONE_BILLION)
        all == ToU64(mSec * ONE_BILLION + mNSec)
        q == NSecsToTics(all)
    IN  IF (Sec < 0 \/ NSec < 0) /\ Sign THEN Throw(DefaultTimer)
        ELSE IF NSec < 0 /\ Sec # 0 THEN Throw(DefaultTimer)
        ELSE IF 0 > mSec THEN Throw(DefaultTimer)
        ELSE IF all > MaxNSecs THEN Throw(DefaultTimer)
        ELSE Ok(Timer(IF sign THEN ToI64(-q) ELSE q, TRUE, mSec, mNSec, sign))

\* HighPerTimer::SetTimer ( uint64_t Seconds, uint64_t NSeconds, bool Sign )
SetTimer(tm, Sec, NSec, Sign) ==
    LET written == [tm EXCEPT !.mSeconds = ToI64(Sec), !.mNSeconds = ToI64(NSec),
                              !.mSign = Sign]
        all == ToU64(written.mSeconds * ONE_BILLION + written.mNSeconds)
        q == NSecsToTics(all)
    IN  IF all > MaxNSecs THEN Throw(written)
        ELSE Ok([written EXCEPT !.mHPTics = IF Sign THEN ToI64(-q) ELSE q,
                                !.mNormalized = TRUE])

\* HighPerTimer::SetSeconds
SetSeconds(tm, S) ==
    IF S < 0 THEN SetTimer(tm, ToU64(-S), 0, TRUE)
    ELSE SetTimer(tm, ToU64(S), 0, FALSE)

\* HighPerTimer::SetUSeconds
SetUSeconds(tm, US) ==
    IF US < 0
    THEN SetTimer(tm, ToU64(-US) \div ONE_MILLION,
                  ToU64((ToU64(-US) % ONE_MILLION) * ONE_THOUSAND), TRUE)
    ELSE SetTimer(tm, ToU64(US) \div ONE_MILLION,
                  ToU64((ToU64(US) % ONE_MILLION) * ONE_THOUSAND), FALSE)

\* HighPerTimer::SetNSeconds
SetNSeconds(tm, NS) ==
    IF NS < 0
    THEN SetTimer(tm, ToU64(-NS) \div ONE_BILLION, ToU64(NS), TRUE)
    ELSE SetTimer(tm, ToU64(NS) \div ONE_BILLION, ToU64(NS), FALSE)

\* HighPerTimer::operator+= ( const HighPerTimer & )
PlusAssign(tm, b) ==
    IF (b > 0) /\ (HPTics(HPTimer_MAX) - b <= tm.mHPTics) THEN Throw(tm)
    ELSE IF (b < 0) /\ (HPTics(HPTimer_MIN) - b >= tm.mHPTics) THEN Throw(tm)
    ELSE Ok([tm EXCEPT !.mHPTics = ToI64(tm.mHPTics + b), !.mNormalized = FALSE])

\* HighPerTimer::operator-= ( const HighPerTimer & )
MinusAssign(tm, b) ==
    IF (b > 0) /\ (HPTics(HPTimer_MIN) + b >= tm.mHPTics) THEN Throw(tm)
    ELSE IF (b < 0) /\ (HPTics(HPTimer_MAX) + b <= tm.mHPTics) THEN Throw(tm)
    ELSE Ok([tm EXCEPT !.mHPTics = ToI64(tm.mHPTics - b), !.mNormalized = FALSE])

\* operator+ ( const HighPerTimer &, const HighPerTimer & ): the new timer
OperatorPlus(a, b) ==
    IF (b > 0) /\ (HPTics(HPTimer_MAX) - b <= a) THEN Throw(DefaultTimer)
    ELSE IF (b < 0) /\ (HPTics(HPTimer_MIN) - b >= a) THEN Throw(DefaultTimer)
    ELSE CtorTics(ToI64(a + b), FALSE)

\* a TicAdd that invalidates the cache before it checks the range
TicAdd_WriteFirst(tm, Tics) ==
    IF ToI64(ToU64(HPTics(HPTimer_MAX)) - Tics) >= tm.mHPTics
    THEN Ok([tm EXCEPT !.mHPTics = ToI64(tm.mHPTics + Tics), !.mNormalized = FALSE])
    ELSE Throw([tm EXCEPT !.mNormalized = FALSE])

\* HighPerTimer::TicAdd ( const uint64_t Tics )
TicAdd(tm, Tics) ==
    IF ToI64(ToU64(HPTics(HPTimer_MAX)) - Tics) >= tm.mHPTics
    THEN Ok([tm EXCEPT !.mHPTics = ToI64(tm.mHPTics + Tics), !.mNormalized = FALSE])
    ELSE Throw(tm)

\* HighPerTimer::TicSub ( const uint64_t Tics )
TicSub(tm, Tics) ==
    IF ToI64(ToU64(HPTics(HPTimer_MIN)) + Tics) <= tm.mHPTics
    THEN Ok([tm EXCEPT !.mHPTics = ToI64(tm.mHPTics - Tics), !.mNormalized = FALSE])
    ELSE Throw(tm)

\* an InvertSign without the check for the int64_t minimum: the negation wraps
InvertSign_Unchecked(tm) ==
    Ok([tm EXCEPT !.mSign = ~tm.mSign, !.mHPTics = ToI64(-tm.mHPTics)])

\* HighPerTimer::InvertSign
InvertSign(tm) ==
    LET flipped == [tm EXCEPT !.mSign = ~tm.mSign]
    IN  IF tm.mHPTics # INT64_MIN
        THEN Ok([flipped EXCEPT !.mHPTics = -tm.mHPTics])
        ELSE Throw(flipped)

\* HighPerTimer::operator= ( const HighPerTimer & )
CopyAssign(tm, other) ==
    Ok([tm EXCEPT !.mHPTics = other.mHPTics, !.mNormalized = FALSE])

-----------------------------------------------------------------------------
(* Reading the time source *)

\* TSCTimer::CPU_TSC: EDX:EAX, the full counter
CPU_TSC == hwCounter

\* HPETTimer::GetHPETTics, x86_64 branch: the main counter register is read
\* through an int32_t pointer and the value converted to uint64_t
GetHPETTics ==
    LET low == hwCounter % (2 ^ INT32_BITS)
        asInt32 == IF low >= 2 ^ (INT32_BITS - 1) THEN low - 2 ^ INT32_BITS ELSE low
    IN  ToI64(ToU64(asInt32))

\* OSTimer::GetOSTimerTics: CLOCK_MONOTONIC nanoseconds * ( OSTimerFrequency / 1000 )
GetOSTimerTics == ToI64(hwCounter)

\* HighPerTimer::GetTimerTics
GetTimerTics ==
    IF HPTimerSource = "TSC" THEN CPU_TSC
    ELSE IF HPTimerSource = "HPET" THEN GetHPETTics
    ELSE GetOSTimerTics

\* HighPerTimer::Now(): HighPerTimer { GetTimerTics(), true }
Now == CtorTics(GetTimerTics, TRUE)

\* HighPerTimer::SetNow and HighPerTimer::Now ( HighPerTimer & )
SetNow(tm) ==
    Ok([tm EXCEPT !.mHPTics = ToI64(GetTimerTics + UnixZeroShift),
                  !.mNormalized = FALSE])

-----------------------------------------------------------------------------
(* Bounds of the model *)

\* operations performed in one behaviour of the value-type specification
MaxOps == 2

\* UnixZeroShift of the TSC and HPET sources, in tics
ShiftTics == 1

\* HPJiffies in (scaled) nanoseconds
JiffyNSecs == 2

-----------------------------------------------------------------------------
(* Process initialisation: HPTimerInitAndClean::HPTimerInitAndClean *)

TimeSources == {"TSC", "HPET", "OS"}

\* HighPerTimer::InitHPFrequency: NsecPerTic of each source (TSC: the measured
\* mean, below 1; HPET: 1000 / frequency, above 1; OS: 1000 / OSTimerFrequency)
InitHPFrequency(source) ==
    IF source = "TSC" THEN [num |-> 1, den |-> 2]
    ELSE IF source = "HPET" THEN [num |-> 2, den |-> 1]
    ELSE [num |-> 1, den |-> 1]

\* HighPerTimer::InitHPFrequency: TicsPerUsec, 1000 / NsecPerTic
InitTicsPerUsec(source) ==
    (ONE_THOUSAND * InitHPFrequency(source).den) \div InitHPFrequency(source).num

\* HighPerTimer::InitUnixZeroShift
InitUnixZeroShift(source) == IF source = "OS" THEN 0 ELSE ShiftTics

\* HighPerTimer::InitMaxMinHPTimer: <<HPTimer_MAX, HPTimer_MIN>>
InitMaxMinHPTimer(source) ==
    IF source = "HPET"
    THEN <<Timer(TruncDiv(INT64_MAX, HPET_BOUND_DIVISOR), FALSE, 0, 0, FALSE),
           Timer(TruncDiv(INT64_MIN, HPET_BOUND_DIVISOR), FALSE, 0, 0, FALSE)>>
    ELSE <<Timer(INT64_MAX, FALSE, 0, 0, FALSE), Timer(INT64_MIN, FALSE, 0, 0, FALSE)>>

\* values of the hardware counter when the program starts
CounterStarts == {0, 2 ^ (INT32_BITS - 2)}

\* InitTimerSource prefers the TSC: another source is chosen only when
\* InitTSCTimer() failed
CalibValues ==
    /\ HPTimerSource \in TimeSources
    /\ HasConstantTSC = (HPTimerSource = "TSC")
    /\ NsecPerTic = InitHPFrequency(HPTimerSource)
    /\ TicsPerUsec = InitTicsPerUsec(HPTimerSource)
    /\ UnixZeroShift = InitUnixZeroShift(HPTimerSource)
    /\ HPTimer_MAX = InitMaxMinHPTimer(HPTimerSource)[1]
    /\ HPTimer_MIN = InitMaxMinHPTimer(HPTimerSource)[2]
    /\ HPJiffies = JiffyNSecs

\* InitSecPerJiffy has returned: its locals are gone
NoJiffy == [i |-> 0, count100 |-> 0, count250 |-> 0, count300 |-> 0,
            count1000 |-> 0, running |-> FALSE, trials |-> 0, latest |-> "none",
            before |-> "none"]

\* the calibration at program start, the frequency measured at the first attempt;
\* /dev/hpet is open when the HPET is the source and could not be opened when
\* the OS clock is
CalibInit ==
    /\ CalibValues
    /\ InitFreqAttempt = 0
    /\ HpetFd = IF HPTimerSource = "HPET" THEN 1 ELSE -1
    /\ fdCloses = IF HPTimerSource = "HPET" THEN <<0>> ELSE <<>>
    /\ jiffy = NoJiffy

-----------------------------------------------------------------------------
(* Threads and timer instances of the sleep / interrupt part *)

\* thread A sleeps on timer t, thread B interrupts t or another timer u
Instances == {"t", "u"}
Sleepers == {"A"}
Interrupters == {"B"}
Threads == Sleepers \cup Interrupters
NoThread == "none"
InstanceOf(th) == "t"

\* locals of a thread that is not inside a sleep call
NoSleep ==
    [kind |-> "none", TargetTics |-> 0, Counter |-> 0, coarse |-> FALSE,
     waitLeft |-> 0, woke |-> "none", done |-> FALSE, early |-> FALSE,
     ownInt |-> FALSE, hit |-> FALSE, interval |-> [num |-> 0, den |-> 1],
     sinceInt |-> 0, prior |-> FALSE, later |-> FALSE]

\* locals of a thread that is not inside Interrupt()
NoInterrupt == [inst |-> "t", within |-> {}]

\* no thread has called anything yet
SleepQuiet ==
    /\ mInterrupted = [i \in Instances |-> FALSE]
    /\ mCancelled = [i \in Instances |-> FALSE]
    /\ HPmutex = NoThread
    /\ HPcond = {}
    /\ pc = [th \in Threads |-> "idle"]
    /\ slp = [th \in Sleepers |-> NoSleep]
    /\ intr = [th \in Interrupters |-> NoInterrupt]
    /\ calls = [th \in Threads |-> 0]

-----------------------------------------------------------------------------
(* The value-type specification: one thread applying operations to timer t *)

NoNow == <<>>

\* inputs: tick values at the bounds, around zero and at the ends of int64_t
TicInputs ==
    {ToI64(x) : x \in {HPTics(HPTimer_MIN), -1, 0, 1, HPTics(HPTimer_MAX) - 1,
                       HPTics(HPTimer_MAX), HPTics(HPTimer_MAX) + 1,
                       INT64_MIN, INT64_MAX}}

\* inputs: unsigned tick counts
UTicInputs == {1, INT64_MAX, TwoW - 1}

\* the largest seconds part SetTimer accepts
MaxSec == MaxNSecs \div ONE_BILLION

\* inputs of SetTimer: seconds and nanoseconds parts (unsigned)
SecInputs == {1, MaxSec + 1}
NSecInputs == {0, ONE_BILLION + ONE_BILLION \div 2}

\* inputs of the ( Seconds, NSeconds, Sign ) constructor
CtorInputs ==
    {<<0, ONE_BILLION + ONE_BILLION \div 2, FALSE>>, <<1, 0, FALSE>>, <<1, 0, TRUE>>,
     <<-1, 0, FALSE>>, <<-1, 0, TRUE>>, <<0, -1, FALSE>>, <<1, -1, FALSE>>,
     <<MaxSec + 1, 0, FALSE>>}

\* inputs: signed second / microsecond / nanosecond counts
SignedInputs == {-(ONE_BILLION + 1), ONE_BILLION + 1, ONE_BILLION + ONE_THOUSAND, INT64_MAX}

Record(op, r, a, b, val) ==
    /\ opCount < MaxOps
    /\ opCount' = opCount + 1
    /\ res' = [op |-> op, threw |-> r.threw, a |-> a, b |-> b, val |-> val]

ValueInit ==
    /\ CalibInit
    /\ hwCounter \in CounterStarts
    /\ t = DefaultTimer
    /\ res = [op |-> "init", threw |-> FALSE, a |-> 0, b |-> 0, val |-> 0]
    /\ lastNow = NoNow
    /\ opCount = 0
    /\ SleepQuiet

\* a constructor: the new object becomes t unless the constructor threw
DoCtorDefault ==
    /\ Record("HighPerTimer()", Ok(DefaultTimer), 0, 0, 0)
    /\ t' = DefaultTimer
    /\ UNCHANGED <<calibVars, HPTimer_MAX, HPTimer_MIN, hwCounter, lastNow, sleepVars>>

DoCtorTics ==
    \E v \in TicInputs, Shift \in BOOLEAN :
        LET r == CtorTics(v, Shift)
        IN  /\ Record(IF Shift THEN "HighPerTimer(tics,true)" ELSE "HighPerTimer(tics,false)",
                      r, 0, v, r.tm.mHPTics)
            /\ t' = IF r.threw THEN t ELSE r.tm
            /\ UNCHANGED <<calibVars, HPTimer_MAX, HPTimer_MIN, hwCounter, lastNow, sleepVars>>

DoCtorSecNSec ==
    \E in \in CtorInputs :
        LET r == CtorSecNSec(in[1], in[2], in[3])
        IN  /\ Record(IF in[3] THEN "HighPerTimer(sec,nsec,true)"
                      ELSE "HighPerTimer(sec,nsec,false)", r, in[1], in[2], r.tm.mHPTics)
            /\ t' = IF r.threw THEN t ELSE r.tm
            /\ HPTimer_MAX' = Normalize(HPTimer_MAX)
            /\ UNCHANGED <<calibVars, HPTimer_MIN, hwCounter, lastNow, sleepVars>>

DoSetTics ==
    \E v \in TicInputs :
        LET r == SetTics(t, v)
        IN  /\ Record("SetTics", r, 0, v, r.tm.mHPTics)
            /\ t' = r.tm
            /\ UNCHANGED <<calibVars, HPTimer_MAX, HPTimer_MIN, hwCounter, lastNow, sleepVars>>

\* SetTimer ( Seconds, NSeconds, Sign ), SetTimer ( timeval ), SetTimer ( timespec )
DoSetTimer ==
    \E Sec \in SecInputs, NSec \in NSecInputs, Sign \in BOOLEAN :
        LET r == SetTimer(t, Sec, NSec, Sign)
        IN  /\ Record("SetTimer", r, 0, 0, r.tm.mHPTics)
            /\ t' = r.tm
            /\ HPTimer_MAX' = Normalize(HPTimer_MAX)
            /\ UNCHANGED <<calibVars, HPTimer_MIN, hwCounter, lastNow, sleepVars>>

DoSetSeconds ==
    \E S \in SignedInputs :
        LET r == SetSeconds(t, S)
        IN  /\ Record("SetSeconds", r, 0, S, r.tm.mHPTics)
            /\ t' = r.tm
            /\ HPTimer_MAX' = Normalize(HPTimer_MAX)
            /\ UNCHANGED <<calibVars, HPTimer_MIN, hwCounter, lastNow, sleepVars>>

DoSetUSeconds ==
    \E US \in SignedInputs :
        LET r == SetUSeconds(t, US)
        IN  /\ Record("SetUSeconds", r, 0, US, r.tm.mHPTics)
            /\ t' = r.tm
            /\ HPTimer_MAX' = Normalize(HPTimer_MAX)
            /\ UNCHANGED <<calibVars, HPTimer_MIN, hwCounter, lastNow, sleepVars>>

DoSetNSeconds ==
    \E NS \in SignedInputs :
        LET r == SetNSeconds(t, NS)
        IN  /\ Record("SetNSeconds", r, 0, NS, r.tm.mHPTics)
            /\ t' = r.tm
            /\ HPTimer_MAX' = Normalize(HPTimer_MAX)
            /\ UNCHANGED <<calibVars, HPTimer_MIN, hwCounter, lastNow, sleepVars>>

\* t.SetNow() and HighPerTimer::Now ( t )
DoSetNow ==
    LET r == SetNow(t)
    IN  /\ Record("SetNow", r, 0, 0, r.tm.mHPTics)
        /\ t' = r.tm
        /\ UNCHANGED <<calibVars, HPTimer_MAX, HPTimer_MIN, hwCounter, lastNow, sleepVars>>

DoTicAdd ==
    \E Tics \in UTicInputs :
        LET r == TicAdd(t, Tics)
        IN  /\ Record("TicAdd", r, 0, Tics, r.tm.mHPTics)
            /\ t' = r.tm
            /\ UNCHANGED <<calibVars, HPTimer_MAX, HPTimer_MIN, hwCounter, lastNow, sleepVars>>

DoTicSub ==
    \E Tics \in UTicInputs :
        LET r == TicSub(t, Tics)
        IN  /\ Record("TicSub", r, 0, Tics, r.tm.mHPTics)
            /\ t' = r.tm
            /\ UNCHANGED <<calibVars, HPTimer_MAX, HPTimer_MIN, hwCounter, lastNow, sleepVars>>

DoPlusAssign ==
    \E b \in TicInputs :
        LET r == PlusAssign(t, b)
        IN  /\ Record("+=", r, t.mHPTics, b, r.tm.mHPTics)
            /\ t' = r.tm
            /\ UNCHANGED <<calibVars, HPTimer_MAX, HPTimer_MIN, hwCounter, lastNow, sleepVars>>

DoMinusAssign ==
    \E b \in TicInputs :
        LET r == MinusAssign(t, b)
        IN  /\ Record("-=", r, 0, b, r.tm.mHPTics)
            /\ t' = r.tm
            /\ UNCHANGED <<calibVars, HPTimer_MAX, HPTimer_MIN, hwCounter, lastNow, sleepVars>>

\* t + b: t is not modified, the sum is a new timer
DoOperatorPlus ==
    \E b \in TicInputs :
        LET r == OperatorPlus(t.mHPTics, b)
        IN  /\ Record("+", r, t.mHPTics, b, r.tm.mHPTics)
            /\ UNCHANGED <<calibVars, HPTimer_MAX, HPTimer_MIN, hwCounter, t, lastNow, sleepVars>>

DoInvertSign ==
    LET r == InvertSign(t)
    IN  /\ Record("InvertSign", r, t.mHPTics, 0, r.tm.mHPTics)
        /\ t' = r.tm
        /\ UNCHANGED <<calibVars, HPTimer_MAX, HPTimer_MIN, hwCounter, lastNow, sleepVars>>

\* t = other, other a timer holding any tick value
DoCopyAssign ==
    \E v \in TicInputs :
        LET r == CopyAssign(t, Timer(v, FALSE, 0, 0, FALSE))
        IN  /\ Record("=", r, 0, v, r.tm.mHPTics)
            /\ t' = r.tm
            /\ UNCHANGED <<calibVars, HPTimer_MAX, HPTimer_MIN, hwCounter, lastNow, sleepVars>>

\* t.Seconds() / t.NSeconds(): the accessor normalizes the (mutable) cache
DoSeconds ==
    /\ Record("Seconds", Ok(t), 0, 0, Seconds(t))
    /\ t' = Normalize(t)
    /\ UNCHANGED <<calibVars, HPTimer_MAX, HPTimer_MIN, hwCounter, lastNow, sleepVars>>

Next ==
    \/ DoCtorDefault
    \/ DoCtorTics
    \/ DoCtorSecNSec
    \/ DoSetTics
    \/ DoSetTimer
    \/ DoSetSeconds
    \/ DoSetUSeconds
    \/ DoSetNSeconds
    \/ DoSetNow
    \/ DoTicAdd
    \/ DoTicSub
    \/ DoPlusAssign
    \/ DoMinusAssign
    \/ DoOperatorPlus
    \/ DoInvertSign
    \/ DoCopyAssign
    \/ DoSeconds

Spec == ValueInit /\ [][Next]_vars

-----------------------------------------------------------------------------
(* The clock specification: one thread calling Now() while the counter runs *)

\* the counter runs until it has wrapped an int32_t once
MaxCounter == 2 ^ INT32_BITS

\* time passes: the hardware counter advances, by one tic or by half the
\* range of an int32_t
TickSteps == {1, 2 ^ (INT32_BITS - 1)}

\* HighPerTimer::Now()
DoNow ==
    LET r == Now
    IN  /\ res' = [op |-> "Now", threw |-> r.threw, a |-> 0, b |-> GetTimerTics,
                   val |-> r.tm.mHPTics]
        /\ lastNow' = IF r.threw THEN lastNow ELSE <<r.tm.mHPTics>>
        /\ UNCHANGED <<calibVars, HPTimer_MAX, HPTimer_MIN, hwCounter, t, opCount, sleepVars>>

\* t.SetNow() while the counter runs
DoSetNowAt ==
    /\ res' = [op |-> "SetNow", threw |-> FALSE, a |-> 0, b |-> GetTimerTics,
               val |-> SetNow(t).tm.mHPTics]
    /\ t' = SetNow(t).tm
    /\ UNCHANGED <<calibVars, HPTimer_MAX, HPTimer_MIN, hwCounter, lastNow, opCount, sleepVars>>

Tick ==
    \E d \in TickSteps :
        /\ hwCounter + d <= MaxCounter
        /\ hwCounter' = hwCounter + d
        /\ res' = [op |-> "tick", threw |-> FALSE, a |-> 0, b |-> d, val |-> 0]
        /\ UNCHANGED <<calibVars, HPTimer_MAX, HPTimer_MIN, t, lastNow, opCount, sleepVars>>

NowNext ==
    \/ DoNow
    \/ DoSetNowAt
    \/ Tick

NowSpec == ValueInit /\ [][NowNext]_vars

-----------------------------------------------------------------------------
(* The sleep / interrupt specification: thread A sleeps on t, thread B calls  *)
(* Interrupt() on t or on u.  One step is one access to shared memory (the    *)
(* volatile flags, the counter, the mutex, the condition variable).           *)

\* calls one thread makes
MaxCalls == 1

\* the mask of ( ++Counter & 0x0F ), scaled: mInterrupted is looked at when the
\* low bits of Counter are zero
SPIN_CHECK_MASK == 1

\* int64_t ( HPJiffies * ONE_BILLION ) and uint64_t ( HPJiffies * 1000000 )
BusyNSeconds == HPJiffies
BusyUSeconds == HPJiffies \div ONE_THOUSAND

\* the entry points whose loop reads HighPerTimer::Now() instead of GetTimerTics()
UsesNow(kind) == kind \in {"SleepTo(timer)", "SleepToThis"}

\* the duration of a timed wait, in tics of the selected counter
USecsToTics(us) == (us * ONE_THOUSAND * NsecPerTic.den) \div NsecPerTic.num

\* static_cast<int64_t> ( tics * NsecPerTic )
SysNSecs(tics) == CastToInt64(TruncDiv(tics * NsecPerTic.num, NsecPerTic.den))

\* what a sleep computes before it waits: the target of its loop, whether it
\* takes the coarse wait, and the microseconds of that wait; interval is the
\* requested time to the deadline, in nanoseconds ( a rational ).  now is the
\* counter ( GetTimerTics() or Now().HPTics() ) read by the call, tics the
\* mHPTics of the timer it is called on.
SleepPlan(kind, arg, now, tics) ==
    LET plan(target, coarse, usecs, interval) ==
            [TargetTics |-> target, coarse |-> coarse, usecs |-> usecs,
             interval |-> interval]
        ticsInterval(n) == [num |-> n * NsecPerTic.num, den |-> NsecPerTic.den]
        toWake(wake) ==
            LET SysNSeconds == SysNSecs(ToI64(wake - now))
            IN  plan(wake, (SysNSeconds > 0) /\ (SysNSeconds >= BusyNSeconds),
                     TruncDiv(SysNSeconds - BusyNSeconds, ONE_THOUSAND),
                     ticsInterval(wake - now))
        ofTics(n, first) ==
            plan(ToI64(now + n),
                 first /\ (n * NsecPerTic.num >= BusyNSeconds * NsecPerTic.den),
                 TruncDiv(SysNSecs(n) - BusyNSeconds, ONE_THOUSAND),
                 ticsInterval(n))
    IN  CASE kind = "USecSleep" ->
               plan(CastToInt64(TruncDiv(now * NsecPerTic.num
                                         + ToU64(arg * ONE_THOUSAND) * NsecPerTic.den,
                                         NsecPerTic.num)),
                    arg >= BusyUSeconds, arg - BusyUSeconds,
                    [num |-> arg * ONE_THOUSAND, den |-> 1])
          [] kind = "NSecSleep" ->
               plan(CastToInt64(TruncDiv(now * NsecPerTic.num + arg * NsecPerTic.den,
                                         NsecPerTic.num)),
                    arg >= BusyNSeconds, (arg - BusyNSeconds) \div ONE_THOUSAND,
                    [num |-> arg, den |-> 1])
          [] kind = "TicsSleep" -> ofTics(arg, tics > 0)
          [] kind = "Sleep" -> ofTics(tics, tics > 0)
          [] kind = "SleepToThis" -> toWake(tics)
          [] OTHER -> toWake(arg)

\* a long interval ( 2 microseconds, above the jiffy ) in tics of the counter
LongTics == USecsToTics(2)

\* the sleep calls, <<entry point, argument, mHPTics of the timer>>: every
\* entry point, NSecSleep short ( no coarse wait ) and long, TicsSleep on a
\* timer holding zero and a positive tick count
SleepCalls ==
    {<<"USecSleep", 2, 0>>, <<"NSecSleep", 1, 0>>, <<"NSecSleep", 4, 0>>,
     <<"TicsSleep", LongTics, 0>>, <<"TicsSleep", LongTics, LongTics>>,
     <<"SleepTo(tics)", LongTics, 0>>, <<"SleepTo(timer)", LongTics, 0>>,
     <<"SleepToThis", 0, LongTics>>, <<"Sleep", 0, LongTics>>}

\* the counter when the first call begins: zero, and shortly before it passes
\* the largest int32_t
SleepCounterStarts == {0, 2 ^ (INT32_BITS - 1) - 2}

\* from the acquisition of HPmutex until the timed wait ends
CoarsePhase == {"check", "wait_for", "waiting"}

\* an Interrupt() that sets the flag of every timer of the process
SetInterrupted_Every(f, i) == [j \in Instances |-> TRUE]

\* mInterrupted = true, on the instance i Interrupt() is called on
SetInterrupted(f, i) == [f EXCEPT ![i] = TRUE]

\* a sleep that leaves the flag as it finds it
ResetFlag_Keep(f, i) == f

\* mCancelled = false and mInterrupted = false, on the instance i the sleep is
\* called on
ResetFlag(f, i) == [f EXCEPT ![i] = FALSE]

SleepInit ==
    /\ CalibInit
    /\ hwCounter \in SleepCounterStarts
    /\ t = DefaultTimer
    /\ res = [op |-> "init", threw |-> FALSE, a |-> 0, b |-> 0, val |-> 0]
    /\ lastNow = NoNow
    /\ opCount = 0
    \* the constructors leave mInterrupted and mCancelled uninitialised ( every
    \* sleep and every Interrupt() writes them before it reads them )
    /\ \E g \in BOOLEAN :
           /\ mInterrupted = [i \in Instances |-> g]
           /\ mCancelled = [i \in Instances |-> g]
    /\ HPmutex = NoThread
    /\ HPcond = {}
    /\ pc = [th \in Threads |-> "idle"]
    /\ slp = [th \in Sleepers |-> NoSleep]
    /\ intr = [th \in Interrupters |-> NoInterrupt]
    /\ calls = [th \in Threads |-> 0]

sleepFrame == <<calibVars, HPTimer_MAX, HPTimer_MIN, res, lastNow, opCount>>
valueFrame == <<sleepFrame, t>>

\* the sleep returns: its locals are gone, what is kept is how it ended
Return(th, early) ==
    /\ pc' = [pc EXCEPT ![th] = "idle"]
    /\ slp' = [slp EXCEPT ![th] = [NoSleep EXCEPT !.kind = slp[th].kind,
                                                  !.coarse = slp[th].coarse,
                                                  !.woke = slp[th].woke,
                                                  !.ownInt = slp[th].ownInt,
                                                  !.hit = slp[th].hit,
                                                  !.prior = slp[th].prior,
                                                  !.later = slp[th].later,
                                                  !.done = TRUE, !.early = early]]

\* entry of a sleep on a timer holding call[3] tics: mCancelled = false, then
\* the counter is read and the target computed; Now() may throw.  prior notes
\* that an Interrupt() on the instance has returned before.
SleepBegin(th) ==
    \E call \in SleepCalls :
        LET tics == call[3]
            prior == \E b \in Interrupters :
                         pc[b] = "idle" /\ calls[b] > 0 /\ intr[b].inst = InstanceOf(th)
            threw == UsesNow(call[1]) /\ Now.threw
            now == IF UsesNow(call[1]) THEN Now.tm.mHPTics ELSE GetTimerTics
            p == SleepPlan(call[1], call[2], now, tics)
        IN  /\ pc[th] = "idle"
            /\ calls[th] < MaxCalls
            /\ calls' = [calls EXCEPT ![th] = @ + 1]
            /\ t' = [t EXCEPT !.mHPTics = tics]
            /\ mCancelled' = ResetFlag(mCancelled, InstanceOf(th))
            /\ slp' = [slp EXCEPT ![th] =
                          IF threw THEN [NoSleep EXCEPT !.kind = call[1], !.done = TRUE,
                                                        !.prior = prior]
                          ELSE [NoSleep EXCEPT
                                   !.kind = call[1],
                                   !.prior = prior,
                                   !.TargetTics = p.TargetTics,
                                   !.coarse = p.coarse,
                                   !.interval = p.interval,
                                   !.waitLeft = IF p.coarse THEN USecsToTics(p.usecs) ELSE 0]]
            /\ pc' = [pc EXCEPT ![th] = IF threw THEN "idle" ELSE "reset"]
            /\ UNCHANGED <<sleepFrame, hwCounter, mInterrupted, HPmutex, HPcond, intr>>

\* mInterrupted = false, then the decision for or against the coarse wait
SleepReset(th) ==
    /\ pc[th] = "reset"
    /\ mInterrupted' = ResetFlag(mInterrupted, InstanceOf(th))
    /\ slp' = [slp EXCEPT ![th].ownInt = FALSE]
    /\ pc' = [pc EXCEPT ![th] = IF slp[th].coarse THEN "lock" ELSE "spin"]
    /\ UNCHANGED <<valueFrame, hwCounter, mCancelled, HPmutex, HPcond, intr, calls>>

\* std::unique_lock<std::mutex> lock ( HPmutex )
SleepLock(th) ==
    /\ pc[th] = "lock"
    /\ HPmutex = NoThread
    /\ HPmutex' = th
    /\ pc' = [pc EXCEPT ![th] = "check"]
    /\ UNCHANGED <<valueFrame, hwCounter, mInterrupted, mCancelled, HPcond, slp, intr, calls>>

\* if ( mInterrupted == true ) mCancelled = true
SleepCheck(th) ==
    /\ pc[th] = "check"
    /\ mCancelled' = IF mInterrupted[InstanceOf(th)]
                     THEN [mCancelled EXCEPT ![InstanceOf(th)] = TRUE]
                     ELSE mCancelled
    /\ pc' = [pc EXCEPT ![th] = "wait_for"]
    /\ UNCHANGED <<valueFrame, hwCounter, mInterrupted, HPmutex, HPcond, slp, intr, calls>>

\* HPcond.wait_for: the mutex is released and the thread blocks, atomically
SleepWait(th) ==
    /\ pc[th] = "wait_for"
    /\ HPmutex' = NoThread
    /\ HPcond' = HPcond \cup {th}
    /\ pc' = [pc EXCEPT ![th] = "waiting"]
    /\ UNCHANGED <<valueFrame, hwCounter, mInterrupted, mCancelled, slp, intr, calls>>

\* the wait of th ends
Wake(th, why) ==
    /\ HPcond' = HPcond \ {th}
    /\ pc' = [pc EXCEPT ![th] = "relock"]
    /\ slp' = [slp EXCEPT ![th].woke = why, ![th].waitLeft = 0]

\* the timeout of wait_for expires
SleepTimeout(th) ==
    /\ pc[th] = "waiting"
    /\ th \in HPcond
    /\ slp[th].waitLeft = 0
    /\ Wake(th, "timeout")
    /\ intr' = [b \in Interrupters |-> [intr[b] EXCEPT !.within = @ \ {th}]]
    /\ UNCHANGED <<valueFrame, hwCounter, mInterrupted, mCancelled, HPmutex, calls>>

\* a spurious wake-up of wait_for
SleepSpurious(th) ==
    /\ pc[th] = "waiting"
    /\ th \in HPcond
    /\ Wake(th, "spurious")
    /\ intr' = [b \in Interrupters |-> [intr[b] EXCEPT !.within = @ \ {th}]]
    /\ UNCHANGED <<valueFrame, hwCounter, mInterrupted, mCancelled, HPmutex, calls>>

\* wait_for returns: it takes the mutex again, and the lock goes out of scope
SleepRelock(th) ==
    /\ pc[th] = "relock"
    /\ HPmutex = NoThread
    /\ pc' = [pc EXCEPT ![th] = "spin"]
    /\ UNCHANGED <<valueFrame, hwCounter, mInterrupted, mCancelled, HPmutex, HPcond,
                   slp, intr, calls>>

\* a spin loop that never looks at mInterrupted
SpinChecks_Never(Counter) == FALSE

\* 0 == ( ++Counter & 0x0F ): the passes of the loop body that look at mInterrupted
SpinChecks(Counter) == Counter % (SPIN_CHECK_MASK + 1) = 0

\* one evaluation of the loop condition and, if it holds, one pass of the body;
\* sinceInt counts the passes made with mInterrupted set that did not return
SleepSpin(th) ==
    /\ pc[th] = "spin"
    /\ IF UsesNow(slp[th].kind) /\ Now.threw
       THEN Return(th, FALSE)
       ELSE LET now == IF UsesNow(slp[th].kind) THEN Now.tm.mHPTics ELSE GetTimerTics
                Counter == (slp[th].Counter + 1) % (SPIN_CHECK_MASK + 1)
            IN  IF ~(now < slp[th].TargetTics)
                THEN Return(th, FALSE)
                ELSE IF SpinChecks(Counter) /\ mInterrupted[InstanceOf(th)]
                     THEN Return(th, TRUE)
                     ELSE /\ slp' = [slp EXCEPT
                                        ![th].Counter = Counter,
                                        ![th].sinceInt = IF mInterrupted[InstanceOf(th)]
                                                         THEN @ + 1 ELSE 0]
                          /\ UNCHANGED pc
    /\ UNCHANGED <<valueFrame, hwCounter, mInterrupted, mCancelled, HPmutex, HPcond,
                   intr, calls>>

\* Interrupt(): mCancelled = true.  The sleeps in progress on the instance
\* note the call.
InterruptBegin(b) ==
    \E i \in Instances :
        /\ pc[b] = "idle"
        /\ calls[b] < MaxCalls
        /\ calls' = [calls EXCEPT ![b] = @ + 1]
        /\ mCancelled' = [mCancelled EXCEPT ![i] = TRUE]
        /\ intr' = [intr EXCEPT ![b] =
                       [inst |-> i,
                        within |-> {a \in Sleepers : InstanceOf(a) = i /\ pc[a] \in CoarsePhase}]]
        /\ pc' = [pc EXCEPT ![b] = "while"]
        /\ slp' = [a \in Sleepers |->
                      IF InstanceOf(a) = i /\ pc[a] # "idle"
                      THEN [slp[a] EXCEPT !.later = TRUE]
                      ELSE slp[a]]
        /\ UNCHANGED <<valueFrame, hwCounter, mInterrupted, HPmutex, HPcond>>

\* while ( mCancelled != true )
InterruptWhile(b) ==
    /\ pc[b] = "while"
    /\ pc' = [pc EXCEPT ![b] = IF mCancelled[intr[b].inst] # TRUE THEN "body" ELSE "set"]
    /\ UNCHANGED <<valueFrame, hwCounter, mInterrupted, mCancelled, HPmutex, HPcond,
                   slp, intr, calls>>

\* the write of mInterrupted, noted by the sleeps on that instance
WriteInterrupted(b, next) ==
    /\ mInterrupted' = SetInterrupted(mInterrupted, intr[b].inst)
    /\ slp' = [a \in Sleepers |->
                  IF InstanceOf(a) = intr[b].inst /\ pc[a] # "idle"
                  THEN [slp[a] EXCEPT !.ownInt = TRUE]
                  ELSE slp[a]]
    /\ pc' = [pc EXCEPT ![b] = next]
    /\ UNCHANGED <<valueFrame, hwCounter, mCancelled, HPmutex, HPcond, intr, calls>>

\* the body of the loop: mInterrupted = true
InterruptBody(b) ==
    /\ pc[b] = "body"
    /\ WriteInterrupted(b, "while")

\* mInterrupted = true after the loop
InterruptSet(b) ==
    /\ pc[b] = "set"
    /\ WriteInterrupted(b, "notify")

\* HPcond.notify_one(), with no thread waiting
InterruptNotifyNone(b) ==
    /\ pc[b] = "notify"
    /\ HPcond = {}
    /\ pc' = [pc EXCEPT ![b] = "idle"]
    /\ slp' = [a \in Sleepers |->
                  IF a \in intr[b].within THEN [slp[a] EXCEPT !.hit = TRUE] ELSE slp[a]]
    /\ intr' = [intr EXCEPT ![b].within = {}]
    /\ UNCHANGED <<valueFrame, hwCounter, mInterrupted, mCancelled, HPmutex, HPcond, calls>>

\* HPcond.notify_one(): one of the waiting threads is woken
InterruptNotifyOne(b) ==
    \E w \in HPcond :
        /\ pc[b] = "notify"
        /\ HPcond' = HPcond \ {w}
        /\ pc' = [pc EXCEPT ![b] = "idle", ![w] = "relock"]
        /\ slp' = [a \in Sleepers |->
                      [slp[a] EXCEPT !.hit = (@ \/ a \in intr[b].within),
                                     !.woke = IF a = w THEN "notify" ELSE @,
                                     !.waitLeft = IF a = w THEN 0 ELSE @]]
        /\ intr' = [c \in Interrupters |->
                       [intr[c] EXCEPT !.within = IF c = b THEN {} ELSE @ \ {w}]]
        /\ UNCHANGED <<valueFrame, hwCounter, mInterrupted, mCancelled, HPmutex, calls>>

\* the sleep of thread a has a deadline ahead: it is in a timed wait with time left,
\* or its loop would still read a counter below its target
AwaitsClock(a) ==
    /\ pc[a] # "idle"
    /\ \/ a \in HPcond /\ slp[a].waitLeft > 0
       \/ IF UsesNow(slp[a].kind) THEN ~Now.threw /\ Now.tm.mHPTics < slp[a].TargetTics
          ELSE GetTimerTics < slp[a].TargetTics

\* time passes while a sleep awaits it: the counter advances by one tic.  Of
\* the HPET main counter only the low INT32_BITS bits are kept, the bits
\* GetHPETTics reads.
ClockTick ==
    /\ \E a \in Sleepers : AwaitsClock(a)
    /\ hwCounter' = IF HPTimerSource = "HPET" THEN (hwCounter + 1) % (2 ^ INT32_BITS)
                    ELSE hwCounter + 1
    /\ slp' = [a \in Sleepers |->
                  IF a \in HPcond /\ slp[a].waitLeft > 0
                  THEN [slp[a] EXCEPT !.waitLeft = @ - 1] ELSE slp[a]]
    /\ UNCHANGED <<valueFrame, mInterrupted, mCancelled, HPmutex, HPcond, pc, intr, calls>>

\* the steps a thread inside a sleep takes by itself
SleepStep(th) ==
    \/ SleepReset(th)
    \/ SleepLock(th)
    \/ SleepCheck(th)
    \/ SleepWait(th)
    \/ SleepTimeout(th)
    \/ SleepRelock(th)
    \/ SleepSpin(th)

\* the steps of a thread inside Interrupt()
InterruptStep(b) ==
    \/ InterruptWhile(b)
    \/ InterruptBody(b)
    \/ InterruptSet(b)
    \/ InterruptNotifyNone(b)
    \/ InterruptNotifyOne(b)

SleepNext ==
    \/ \E th \in Sleepers : SleepBegin(th)
    \/ \E th \in Sleepers : SleepStep(th)
    \/ \E th \in Sleepers : SleepSpurious(th)
    \/ \E b \in Interrupters : InterruptBegin(b)
    \/ \E b \in Interrupters : InterruptStep(b)
    \/ ClockTick

SleepSpec == SleepInit /\ [][SleepNext]_vars

\* every thread inside a call is scheduled again and the counter keeps advancing
SleepFairness ==
    /\ WF_vars(ClockTick)
    /\ \A th \in Sleepers : WF_vars(SleepStep(th))
    /\ \A b \in Interrupters : WF_vars(InterruptStep(b))

FairSleepSpec == SleepInit /\ [][SleepNext]_vars /\ SleepFairness

-----------------------------------------------------------------------------
(* Frequency measurement: HighPerTimer::InitHPFrequency with the TSC *)

\* measurements of one InitHPFrequency call that are repeated, at most
MaxNoisy == 4

\* InitHPFrequency repeats a measurement while InitFreqAttempt < 3
MAX_FREQ_ATTEMPTS == 3

\* DelayTime arguments, in hundredths of a second: 0.02, 0.1, 1, 10, and 0.5, 0
DelayInputs == {2, 10, 100, 1000, 50, 0}

\* a SetClockSkew that takes every positive DelayTime
AllowedDelay_Positive(DelayTime) == DelayTime > 0

\* HighPerTimer::SetClockSkew: the DelayTime values it accepts
AllowedDelay(DelayTime) == DelayTime \in {2, 10, 100, 1000}

\* VecFreq, the five usFreq values of one measurement: all equal, one that
\* differs ( last, first, third ), two that differ
SampleInputs ==
    {<<1, 1, 1, 1, 1>>, <<1, 1, 1, 1, 2>>, <<2, 1, 1, 1, 1>>, <<1, 1, 2, 1, 1>>,
     <<1, 2, 1, 2, 1>>}

RECURSIVE SumOf(_)
SumOf(v) == IF v = <<>> THEN 0 ELSE Head(v) + SumOf(Tail(v))

RECURSIVE SumSqOf(_)
SumSqOf(v) == IF v = <<>> THEN 0 ELSE Head(v) * Head(v) + SumSqOf(Tail(v))

\* std::abs ( mean - x ) > ( stdev * 1.7885 ) with mean = S / n and
\* stdev = sqrt ( ( Q - S * S / n ) / ( n - 1 ) ), S and Q the sum and the sum
\* of squares of VecFreq: both sides squared and cleared of denominators,
\* 1.7885 * 1.7885 = 12794929 / 4000000
IsPeak(VecFreq, x) ==
    LET n == Len(VecFreq)
        S == SumOf(VecFreq)
        Q == SumSqOf(VecFreq)
    IN  4000000 * (n - 1) * (n * x - S) * (n * x - S) > 12794929 * n * (n * Q - S * S)

\* the loop over VecFreq that excludes a peak; rest are the elements from the
\* iterator to end().  TRUE when the loop reaches the branch that repeats the
\* measurement or gives up: an element is visited after a peak was erased.
RECURSIVE PeakScan(_, _, _)
PeakScan(VecFreq, rest, peak) ==
    IF rest = <<>> THEN FALSE
    ELSE IF peak < 1
         THEN IF IsPeak(VecFreq, Head(rest))
              THEN PeakScan(VecFreq, Tail(rest), peak + 1)
              ELSE PeakScan(VecFreq, Tail(rest), peak)
         ELSE TRUE

\* per measurement: it is repeated, or the calibration is given up
Repeated == [VecFreq \in SampleInputs |-> PeakScan(VecFreq, VecFreq, 0)]

\* the measurements of one InitHPFrequency call with the TSC: the samples of
\* the first one and, if that one is repeated, the number of the following
\* ones that are repeated as well
Measurements ==
    {m \in [first : SampleInputs, more : 0..MaxNoisy] :
        m.more > 0 => Repeated[m.first]}

NoMeasurement == [first |-> <<>>, more |-> 0]

MeasurementsOf(source) == IF source = "TSC" THEN Measurements ELSE {NoMeasurement}

\* the measurements of m that reach the repeat-or-give-up branch
Noisy(m) == IF m.first # <<>> /\ Repeated[m.first] THEN 1 + m.more ELSE 0

\* HighPerTimer::InitHPFrequency with the TSC: each measurement that reaches
\* the branch is repeated and counted in InitFreqAttempt; with the count at
\* its maximum std::exception is thrown.  noisy is the number of such
\* measurements before a clean one.
FrequencyThrows(source, noisy) ==
    source = "TSC" /\ InitFreqAttempt + noisy > MAX_FREQ_ATTEMPTS

AttemptsAfter(source, noisy) ==
    IF source # "TSC" THEN InitFreqAttempt
    ELSE IF InitFreqAttempt + noisy > MAX_FREQ_ATTEMPTS THEN MAX_FREQ_ATTEMPTS
    ELSE InitFreqAttempt + noisy

\* the measurements InitHPFrequency makes, the recursive calls included
RunsMade(source, noisy) ==
    IF source # "TSC" THEN 0
    ELSE IF InitFreqAttempt + noisy > MAX_FREQ_ATTEMPTS
         THEN MAX_FREQ_ATTEMPTS - InitFreqAttempt + 1
         ELSE noisy + 1

\* what one InitHPFrequency call leaves in the history: the samples of its
\* first measurement and the number of measurements
Measured(source, m) == [first |-> m.first, runs |-> RunsMade(source, Noisy(m))]

-----------------------------------------------------------------------------
(* /dev/hpet *)

\* the shift applied to the general capabilities register
COUNT_SIZE_CAP_SHIFT == 13

\* values of the general capabilities register: COUNT_SIZE_CAP is bit 13, the
\* bits above it hold LEG_RT_CAP, the vendor ID and the clock period
CapabilityInputs ==
    {0, 2 ^ 13 - 1, 2 ^ 13, 2 ^ 14, 2 ^ 16, 2 ^ 16 + 2 ^ 13}

\* outcomes of ::open, mmap and the register read of one InitHPETTimer call
HpetProbes ==
    {[open |-> FALSE, map |-> FALSE, reg |-> 0], [open |-> TRUE, map |-> FALSE, reg |-> 0]}
        \cup {[open |-> TRUE, map |-> TRUE, reg |-> r] : r \in CapabilityInputs}

\* descriptors of /dev/hpet opened in one run of the program, at most
MaxOpens == 3

\* ::close ( fd )
Close(closes, fd) == [closes EXCEPT ![fd] = @ + 1]

\* HPETTimer::InitHPETTimer.  A descriptor ::open returns is a new index of
\* closes.  reason is the HPETFailReason the call sets ( "NONE": it sets none ).
InitHPETTimer(closes, probe) ==
    LET fd == Len(closes) + 1
        opened == Append(closes, 0)
    IN  IF ~probe.open
        THEN [ok |-> FALSE, reason |-> "OPEN", HpetFd |-> -1, closes |-> closes]
        ELSE IF ~probe.map
        THEN [ok |-> FALSE, reason |-> "MMAP", HpetFd |-> fd,
              closes |-> Close(opened, fd)]
        ELSE IF probe.reg \div (2 ^ COUNT_SIZE_CAP_SHIFT) = 0
        THEN [ok |-> FALSE, reason |-> "MC32BIT", HpetFd |-> fd, closes |-> opened]
        ELSE [ok |-> TRUE, reason |-> "NONE", HpetFd |-> fd, closes |-> opened]

\* InitHPETTimer was not called
NotProbed == [ok |-> FALSE, reason |-> "NOTCALLED", HpetFd |-> -1, closes |-> <<>>]

-----------------------------------------------------------------------------
(* HighPerTimer::InitTimerSource *)

\* Limit: the percentage under which two means count as similar
Limit == 25

\* results of the read benchmark: mean and standard deviation of the cost of
\* a read of the HPET and of the OS clock.  The costs are differences of a
\* counter that does not go back: a mean of 0 has a deviation of 0.
BenchInputs ==
    {b \in [MeanHpet : {0, 3, 4, 5}, MeanOs : {0, 3, 4, 5},
            StDevHpet : {0, 1}, StDevOs : {0, 1}] :
        /\ b.MeanHpet = 0 => b.StDevHpet = 0
        /\ b.MeanOs = 0 => b.StDevOs = 0}

NoBench == [MeanHpet |-> 0, MeanOs |-> 0, StDevHpet |-> 0, StDevOs |-> 0]

\* Percentage < Limit with Percentage = 100 - ( lower mean / higher mean * 100 );
\* with both means 0 Percentage is not a number and the comparison is false
PercentageUnderLimit(b) ==
    LET lo == IF b.MeanHpet < b.MeanOs THEN b.MeanHpet ELSE b.MeanOs
        hi == IF b.MeanHpet < b.MeanOs THEN b.MeanOs ELSE b.MeanHpet
    IN  hi # 0 /\ 100 * hi - 100 * lo < Limit * hi

\* a selection that takes the HPET whenever it can be initialised
InitTimerSource_HpetFirst(tscOk, hpetOk, b) ==
    IF tscOk THEN "TSC" ELSE IF hpetOk THEN "HPET" ELSE "OS"

\* HighPerTimer::InitTimerSource: the source it selects
InitTimerSource(tscOk, hpetOk, b) ==
    IF tscOk THEN "TSC"
    ELSE IF hpetOk
         THEN IF PercentageUnderLimit(b)
              THEN IF b.StDevHpet < b.StDevOs THEN "HPET" ELSE "OS"
              ELSE IF b.MeanHpet < b.MeanOs THEN "HPET" ELSE "OS"
         ELSE "OS"

-----------------------------------------------------------------------------
(* The calibration specification: the state HPTimerInitAndClean leaves,       *)
(* SetTimerSource and SetClockSkew, and the clean-up at exit                  *)

\* HPTimerInitAndClean::HPTimerInitAndClean: the program starts.  The
\* constructor returns only if the frequency measurement did not throw.
SourceInit ==
    \E tscOk \in BOOLEAN :
    \E probe \in (IF tscOk THEN {[open |-> FALSE, map |-> FALSE, reg |-> 0]}
                  ELSE HpetProbes) :
    \E seen \in (IF ~tscOk /\ InitHPETTimer(<<>>, probe).ok THEN BenchInputs
                 ELSE {NoBench}) :
    \E run \in MeasurementsOf(IF tscOk THEN "TSC" ELSE "OS") :
        LET hpet == IF tscOk THEN NotProbed ELSE InitHPETTimer(<<>>, probe)
            source == InitTimerSource(tscOk, hpet.ok, seen)
        IN  /\ HPTimerSource = source
            /\ CalibValues
            /\ HasConstantTSC = tscOk
            /\ HpetFd = hpet.HpetFd
            /\ fdCloses = hpet.closes
            /\ InitFreqAttempt = Noisy(run)
            /\ Noisy(run) <= MAX_FREQ_ATTEMPTS
            /\ jiffy = NoJiffy
            /\ res = [op |-> "init", threw |-> FALSE, a |-> tscOk, b |-> hpet.ok,
                      val |-> source, reason |-> hpet.reason,
                      reg |-> IF tscOk THEN 0 ELSE probe.reg, bench |-> seen,
                      first |-> run.first,
                      runs |-> Noisy(run) + (IF source = "TSC" THEN 1 ELSE 0)]
    /\ hwCounter \in CounterStarts
    /\ t = DefaultTimer
    /\ lastNow = NoNow
    /\ opCount = 0
    /\ SleepQuiet

\* the program has not left main
Running == res.op # "exit"

\* HighPerTimer::SetTimerSource ( UserSource ).  probe holds the outcomes of
\* the system calls of InitHPETTimer(), m the measurements of InitHPFrequency.
DoSetTimerSource ==
    /\ Running
    /\ \E UserSource \in TimeSources :
       \E probe \in (IF UserSource = "HPET" /\ HPTimerSource # "HPET"
                     THEN {p \in HpetProbes : p.open => Len(fdCloses) < MaxOpens}
                     ELSE {[open |-> FALSE, map |-> FALSE, reg |-> 0]}) :
       \E m \in (IF UserSource # HPTimerSource /\ HasConstantTSC
                 THEN MeasurementsOf(UserSource) ELSE {NoMeasurement}) :
        LET same == UserSource = HPTimerSource
            hpet == IF ~same /\ UserSource = "HPET"
                    THEN InitHPETTimer(fdCloses, probe)
                    ELSE [NotProbed EXCEPT !.HpetFd = HpetFd, !.closes = fdCloses]
            failed == /\ ~same
                      /\ \/ UserSource = "TSC" /\ ~HasConstantTSC
                         \/ UserSource = "HPET" /\ ~hpet.ok
            noisy == Noisy(m)
            threw == ~same /\ ~failed /\ FrequencyThrows(UserSource, noisy)
            measured == IF same \/ failed THEN Measured("OS", NoMeasurement)
                        ELSE Measured(UserSource, m)
        IN  /\ HPTimerSource' = IF same \/ failed THEN HPTimerSource ELSE UserSource
            /\ HpetFd' = hpet.HpetFd
            /\ fdCloses' = hpet.closes
            /\ InitFreqAttempt' = IF same \/ failed THEN InitFreqAttempt
                                  ELSE AttemptsAfter(UserSource, noisy)
            /\ IF same \/ failed \/ threw
               THEN UNCHANGED <<NsecPerTic, TicsPerUsec, UnixZeroShift, HPTimer_MAX,
                                HPTimer_MIN>>
               ELSE /\ NsecPerTic' = InitHPFrequency(UserSource)
                    /\ TicsPerUsec' = InitTicsPerUsec(UserSource)
                    /\ UnixZeroShift' = InitUnixZeroShift(UserSource)
                    /\ HPTimer_MAX' = SetTics(HPTimer_MAX,
                                              HPTics(InitMaxMinHPTimer(UserSource)[1])).tm
                    /\ HPTimer_MIN' = SetTics(HPTimer_MIN,
                                              HPTics(InitMaxMinHPTimer(UserSource)[2])).tm
            /\ res' = [op |-> "SetTimerSource", threw |-> threw, a |-> UserSource,
                       b |-> failed, val |-> HPTimerSource', reason |-> hpet.reason,
                       reg |-> probe.reg, first |-> measured.first,
                       runs |-> measured.runs]
            /\ UNCHANGED <<HPJiffies, HasConstantTSC, jiffy, hwCounter, t, lastNow,
                           opCount, sleepVars>>

\* HighPerTimer::SetClockSkew ( DelayTime )
DoSetClockSkew ==
    /\ Running
    /\ \E DelayTime \in DelayInputs :
       \E m \in (IF AllowedDelay(DelayTime) THEN MeasurementsOf(HPTimerSource)
                 ELSE {NoMeasurement}) :
        LET noisy == Noisy(m)
            threw == AllowedDelay(DelayTime) /\ FrequencyThrows(HPTimerSource, noisy)
            measured == IF AllowedDelay(DelayTime) THEN Measured(HPTimerSource, m)
                        ELSE Measured("OS", NoMeasurement)
        IN  /\ IF AllowedDelay(DelayTime)
               THEN /\ InitFreqAttempt' = AttemptsAfter(HPTimerSource, noisy)
                    /\ IF threw
                       THEN UNCHANGED <<NsecPerTic, TicsPerUsec, UnixZeroShift>>
                       ELSE /\ NsecPerTic' = InitHPFrequency(HPTimerSource)
                            /\ TicsPerUsec' = InitTicsPerUsec(HPTimerSource)
                            /\ UnixZeroShift' = InitUnixZeroShift(HPTimerSource)
               ELSE UNCHANGED <<InitFreqAttempt, NsecPerTic, TicsPerUsec, UnixZeroShift>>
            /\ res' = [op |-> "SetClockSkew", threw |-> threw, a |-> 0, b |-> DelayTime,
                       val |-> AllowedDelay(DelayTime) /\ ~threw,
                       first |-> measured.first, runs |-> measured.runs]
            /\ UNCHANGED <<HPTimerSource, HPJiffies, HasConstantTSC, HpetFd, fdCloses,
                           jiffy, HPTimer_MAX, HPTimer_MIN, hwCounter, t, lastNow,
                           opCount, sleepVars>>

\* HPTimerInitAndClean::~HPTimerInitAndClean: the program ends
DoExit ==
    /\ Running
    /\ fdCloses' = IF HpetFd >= 0 THEN Close(fdCloses, HpetFd) ELSE fdCloses
    /\ HpetFd' = -1
    /\ res' = [op |-> "exit", threw |-> FALSE, a |-> 0, b |-> 0, val |-> 0]
    /\ UNCHANGED <<HPTimerSource, NsecPerTic, TicsPerUsec, UnixZeroShift, HPJiffies,
                   InitFreqAttempt, HasConstantTSC, jiffy, HPTimer_MAX, HPTimer_MIN,
                   hwCounter, t, lastNow, opCount, sleepVars>>

CalibNext ==
    \/ DoSetTimerSource
    \/ DoSetClockSkew
    \/ DoExit

CalibSpec == SourceInit /\ [][CalibNext]_vars

-----------------------------------------------------------------------------
(* Properties of the value type and of Now() *)

\* a tick count inside [HPTimer_MIN.HPTics(), HPTimer_MAX.HPTics()]
InRange(x) == HPTics(HPTimer_MIN) <= x /\ x <= HPTics(HPTimer_MAX)

\* the step just taken was an operation of the value-type specification
Called(ops) == opCount' = opCount + 1 /\ res'.op \in ops

\* C5: two successive Now() calls return non-decreasing tick values, whatever
\* the source (TSC, HPET, OS), while the hardware counter only advances
C5_NowMonotone ==
    [][(lastNow # NoNow /\ lastNow' # NoNow) => lastNow'[1] >= lastNow[1]]_vars

CtorOps == {"HighPerTimer()", "HighPerTimer(tics,true)", "HighPerTimer(tics,false)",
            "HighPerTimer(sec,nsec,true)", "HighPerTimer(sec,nsec,false)"}
MutatingOps == {"SetTics", "SetTimer", "SetSeconds", "SetUSeconds", "SetNSeconds",
                "SetNow", "TicAdd", "TicSub", "+=", "-=", "InvertSign", "="}

\* C6: every constructor and mutating operation either failed with
\* out_of_range or left the tick count of t inside [HPTimer_MIN, HPTimer_MAX]
C6_TicsInRange ==
    (res.op \in CtorOps \cup MutatingOps /\ ~res.threw) => InRange(t.mHPTics)

\* C7: for timers a and b inside the bounds, a + b and a += b yield
\* a.tics + b.tics when the sum is inside [HPTimer_MIN, HPTimer_MAX] and raise
\* out_of_range exactly when it is outside
C7_SumExact ==
    (res.op \in {"+", "+="} /\ InRange(res.a) /\ InRange(res.b)) =>
        /\ res.threw <=> ~InRange(res.a + res.b)
        /\ ~res.threw => res.val = res.a + res.b

\* C8: HighPerTimer ( tics, shift ) succeeds exactly when
\* tics + ( shift ? UnixZeroShift : 0 ) is inside [HPTimer_MIN, HPTimer_MAX],
\* and the new timer then holds that tick count
C8_CtorTicsExact ==
    (res.op \in {"HighPerTimer(tics,true)", "HighPerTimer(tics,false)"}) =>
        LET sum == res.b + (IF res.op = "HighPerTimer(tics,true)" THEN UnixZeroShift ELSE 0)
        IN  /\ res.threw <=> ~InRange(sum)
            /\ ~res.threw => (res.val = sum /\ t.mHPTics = sum)

SetTimerOps == {"SetTimer", "SetSeconds", "SetUSeconds", "SetNSeconds"}

\* C9: when SetTimer or a setter built on it raises out_of_range, HPTics(),
\* Seconds() and NSeconds() of the receiver return what they returned before
C9_SetTimerThrowKeeps ==
    [][(Called(SetTimerOps) /\ res'.threw) =>
          /\ HPTics(t') = HPTics(t)
          /\ Seconds(t') = Seconds(t)
          /\ NSeconds(t') = NSeconds(t)]_vars

ArithOps == {"+=", "-=", "TicAdd", "TicSub"}

\* C10: when +=, -=, TicAdd or TicSub raises out_of_range, the tick count, the
\* normalized flag and the cached seconds / nanoseconds / sign of the receiver
\* are what they were before the call
C10_ArithThrowKeeps ==
    [][(Called(ArithOps) /\ res'.threw) => t' = t]_vars

\* C10 happens: such an operation threw on a receiver holding a valid cache
\* and a non-zero tick count
C10_Witness ==
    /\ res.op \in ArithOps
    /\ res.threw
    /\ t.mNormalized
    /\ t.mHPTics # 0

-----------------------------------------------------------------------------
(* Properties of the sleeps and of Interrupt() *)

\* C1: every call of Interrupt() returns, whatever a sleep on the same
\* instance does meanwhile; it never spins forever on the cancelled flag
C1_InterruptReturns ==
    \A b \in Interrupters : (pc[b] # "idle") ~> (pc[b] = "idle")

\* thread a is the only thread that has called a sleep
OnlySleeper(a) == \A c \in Sleepers \ {a} : calls[c] = 0

\* C2: when an Interrupt() on its timer ran while the only sleeper was in its
\* coarse phase, the timed wait does not end by its timeout and the sleep
\* returns early, through the interrupted flag
C2_InterruptEndsWait ==
    \A a \in Sleepers :
        (slp[a].hit /\ OnlySleeper(a)) =>
            /\ slp[a].woke # "timeout"
            /\ slp[a].done => slp[a].early

\* C3: every sleep call returns, interrupted or not, while the counter keeps
\* advancing and the threads keep being scheduled
C3_SleepReturns ==
    \A a \in Sleepers : (pc[a] # "idle") ~> (pc[a] = "idle")

\* C4: a sleep returns before its target is reached only if Interrupt() wrote
\* the interrupted flag of its own timer after the sleep reset it; woken by the
\* notify_one of an Interrupt() on another timer, it spins on to its target
C4_EarlyOnlyOwnInterrupt ==
    \A a \in Sleepers : (slp[a].done /\ slp[a].early) => slp[a].ownInt

\* C4 happens: a sleep woken by the Interrupt() on the other timer, never
\* interrupted itself, has returned at its target
C4_Witness ==
    \E a \in Sleepers, b \in Interrupters :
        /\ slp[a].done
        /\ slp[a].woke = "notify"
        /\ intr[b].inst # InstanceOf(a)
        /\ ~slp[a].ownInt
        /\ ~slp[a].early

-----------------------------------------------------------------------------
(* Properties of the cached decomposition and of the setters *)

\* C11: whatever operations were applied, Seconds() and NSeconds() return the
\* decomposition of the current tick count (what Normalize computes from
\* mHPTics), with a nanosecond part below ONE_BILLION: a stale cache is never
\* returned
C11_CacheMatchesTics ==
    LET fresh == Timer(t.mHPTics, FALSE, 0, 0, FALSE)
    IN  /\ Seconds(t) = Seconds(fresh)
        /\ NSeconds(t) = NSeconds(fresh)
        /\ NSeconds(t) < ONE_BILLION

\* C12: SetNSeconds(n), n within the bounds, sets the timer to exactly n
\* nanoseconds: Seconds() = |n| div ONE_BILLION, NSeconds() = |n| mod
\* ONE_BILLION, Negative() = (n < 0), and the tick count is the one
\* SetUSeconds gives for the same time in microseconds
C12_SetNSecondsExact ==
    LET n == res.b
        abs == IF n < 0 THEN -n ELSE n
    IN  (res.op = "SetNSeconds" /\ abs <= MaxNSecs) =>
            /\ ~res.threw
            /\ Seconds(t) = abs \div ONE_BILLION
            /\ NSeconds(t) = abs % ONE_BILLION
            /\ (HPTics(t) < 0) = (n < 0)
            /\ (abs % ONE_THOUSAND = 0) =>
                   HPTics(t) = HPTics(SetUSeconds(t, TruncDiv(n, ONE_THOUSAND)).tm)

\* C13: InvertSign() on a timer holding the tick value of HPTimer_MIN throws
\* out_of_range, with the bounds of every time source
C13_InvertMinThrows ==
    (res.op = "InvertSign" /\ res.a = HPTics(HPTimer_MIN)) => res.threw

\* C14: InvertSign() on a tick count other than the int64_t minimum does not
\* throw and negates it, so that a second InvertSign() gives the first value
\* back; on the int64_t minimum it throws and leaves the tick count as it was
C14_InvertNegates ==
    (res.op = "InvertSign") =>
        IF res.a # INT64_MIN
        THEN /\ ~res.threw
             /\ HPTics(t) = -res.a
             /\ ~InvertSign(t).threw
             /\ HPTics(InvertSign(t).tm) = res.a
        ELSE res.threw /\ HPTics(t) = res.a

\* a non-zero tick count has been negated
C14_Witness == res.op = "InvertSign" /\ ~res.threw /\ res.a # 0 /\ HPTics(t) = -res.a

-----------------------------------------------------------------------------
(* The kernel-HZ discovery: HighPerTimer::InitSecPerJiffy, one step per trial *)

\* HZ100usage, HZ250usage, HZ300usage, HZ1000usage
HZ100usage == 100
HZ250usage == 120
HZ300usage == 133
HZ1000usage == 140

\* the trials of one discovery, at most
LoopCounter == 10

\* CpuDelta, the user time of one trial in hundreds of microseconds: the four
\* usages, 134, and values of no class
CpuDeltaInputs == {HZ100usage, HZ250usage, HZ300usage, HZ300usage + 1, HZ1000usage, 0, 135}

\* the branch of the if-chain a CpuDelta takes
ClassOf(CpuDelta) ==
    IF CpuDelta = HZ100usage THEN "HZ100"
    ELSE IF CpuDelta = HZ250usage THEN "HZ250"
    ELSE IF CpuDelta = HZ300usage \/ CpuDelta = HZ300usage + 1 THEN "HZ300"
    ELSE IF CpuDelta = HZ1000usage THEN "HZ1000"
    ELSE "none"

\* HZ100Jiffies, HZ250Jiffies, HZ300Jiffies, HZ1000Jiffies, in seconds
JiffiesOf(class) ==
    IF class = "HZ100" THEN [num |-> 1, den |-> 100]
    ELSE IF class = "HZ250" THEN [num |-> 1, den |-> 250]
    ELSE IF class = "HZ300" THEN [num |-> 1, den |-> 300]
    ELSE [num |-> 1, den |-> 1000]

\* HPJiffies before InitSecPerJiffy has run
NoJiffies == [num |-> 0, den |-> 1]

\* a discovery that waits for a third observation
Commits_Third(count) == count = 3

\* if ( count100 == 2 ) and the like
Commits(count) == count = 2

\* HPTimerInitAndClean::HPTimerInitAndClean has reached InitSecPerJiffy
JiffyInit ==
    /\ HPTimerSource \in TimeSources
    /\ HasConstantTSC = (HPTimerSource = "TSC")
    /\ NsecPerTic = InitHPFrequency(HPTimerSource)
    /\ TicsPerUsec = InitTicsPerUsec(HPTimerSource)
    /\ UnixZeroShift = InitUnixZeroShift(HPTimerSource)
    /\ HPTimer_MAX = InitMaxMinHPTimer(HPTimerSource)[1]
    /\ HPTimer_MIN = InitMaxMinHPTimer(HPTimerSource)[2]
    /\ InitFreqAttempt = 0
    /\ HpetFd = IF HPTimerSource = "HPET" THEN 1 ELSE -1
    /\ fdCloses = IF HPTimerSource = "HPET" THEN <<0>> ELSE <<>>
    /\ HPJiffies = NoJiffies
    /\ jiffy = [NoJiffy EXCEPT !.running = TRUE]
    /\ hwCounter \in CounterStarts
    /\ t = DefaultTimer
    /\ res = [op |-> "init", threw |-> FALSE, a |-> 0, b |-> 0, val |-> 0]
    /\ lastNow = NoNow
    /\ opCount = 0
    /\ SleepQuiet

jiffyFrame == <<HPTimerSource, NsecPerTic, TicsPerUsec, UnixZeroShift, InitFreqAttempt,
                HasConstantTSC, HpetFd, fdCloses, HPTimer_MAX, HPTimer_MIN, hwCounter,
                t, res, lastNow, opCount, sleepVars>>

\* one pass of the loop: the busy wait of 14500 usec between two getrusage
\* calls, then the if-chain on CpuDelta
JiffyTrial ==
    /\ jiffy.running
    /\ jiffy.i < LoopCounter
    /\ \E CpuDelta \in CpuDeltaInputs :
        LET class == ClassOf(CpuDelta)
            counted == [jiffy EXCEPT
                            !.count100 = IF class = "HZ100" THEN @ + 1 ELSE @,
                            !.count250 = IF class = "HZ250" THEN @ + 1 ELSE @,
                            !.count300 = IF class = "HZ300" THEN @ + 1 ELSE @,
                            !.count1000 = IF class = "HZ1000" THEN @ + 1 ELSE @,
                            !.trials = @ + 1,
                            !.latest = class,
                            !.before = jiffy.latest]
            count == IF class = "HZ100" THEN counted.count100
                     ELSE IF class = "HZ250" THEN counted.count250
                     ELSE IF class = "HZ300" THEN counted.count300
                     ELSE IF class = "HZ1000" THEN counted.count1000
                     ELSE 0
        IN  IF class # "none" /\ Commits(count)
            THEN /\ HPJiffies' = JiffiesOf(class)
                 /\ jiffy' = [counted EXCEPT !.running = FALSE]
            ELSE /\ jiffy' = [counted EXCEPT !.i = @ + 1]
                 /\ UNCHANGED HPJiffies
    /\ UNCHANGED jiffyFrame

\* the loop has ended: none of the frequencies was detected
JiffyDefault ==
    /\ jiffy.running
    /\ jiffy.i >= LoopCounter
    /\ HPJiffies' = JiffiesOf("HZ250")
    /\ jiffy' = [jiffy EXCEPT !.running = FALSE]
    /\ UNCHANGED jiffyFrame

JiffyNext ==
    \/ JiffyTrial
    \/ JiffyDefault

JiffySpec == JiffyInit /\ [][JiffyNext]_vars

-----------------------------------------------------------------------------
(* Properties of the calibration *)

\* the calibration state SetTimerSource and SetClockSkew are about
calibration == <<HPTimerSource, NsecPerTic, TicsPerUsec, UnixZeroShift,
                 HPTimer_MAX, HPTimer_MIN>>

\* C15: a SetTimerSource call whose source cannot be initialised returns the
\* current source and leaves the calibration as it was; a call whose source
\* can be initialised makes it the source and recomputes NsecPerTic,
\* TicsPerUsec, UnixZeroShift and the bounds for it
C15_SetTimerSourceSwitches ==
    [][(res'.op = "SetTimerSource") =>
           IF res'.b
           THEN res'.val = HPTimerSource /\ UNCHANGED calibration
           ELSE /\ HPTimerSource' = res'.a
                /\ NsecPerTic' = InitHPFrequency(res'.a)
                /\ TicsPerUsec' = InitTicsPerUsec(res'.a)
                /\ UnixZeroShift' = InitUnixZeroShift(res'.a)
                /\ HPTics(HPTimer_MAX') = HPTics(InitMaxMinHPTimer(res'.a)[1])
                /\ HPTics(HPTimer_MIN') = HPTics(InitMaxMinHPTimer(res'.a)[2])]_vars

\* C16: SetClockSkew returns true only for a DelayTime of 0.02, 0.1, 1 or 10;
\* for every other DelayTime it returns false and the calibration is unchanged
C16_SetClockSkewRejects ==
    [][(res'.op = "SetClockSkew") =>
           /\ res'.val => res'.b \in {2, 10, 100, 1000}
           /\ res'.b \notin {2, 10, 100, 1000} =>
                  ~res'.val /\ ~res'.threw /\ UNCHANGED calibration]_vars

\* SetClockSkew ( 0.5 ) has returned false
C16_Witness == res.op = "SetClockSkew" /\ res.b = 50 /\ res.val = FALSE

-----------------------------------------------------------------------------
(* Properties of the sleep entry points *)

\* C17: SleepTo ( w ) and SleepTo ( HighPerTimer ( w, false ) ) wait for the
\* same instant: with either of them, an evaluation of the loop condition made
\* when Now().HPTics() has reached w ends the sleep, whatever UnixZeroShift is
C17_SleepToSameInstant ==
    [][\A a \in Sleepers :
           (/\ pc[a] = "spin"
            /\ slp[a].kind \in {"SleepTo(tics)", "SleepTo(timer)"}
            /\ ~Now.threw
            /\ Now.tm.mHPTics >= slp[a].TargetTics
            /\ (pc'[a] # pc[a] \/ slp'[a].Counter # slp[a].Counter))
           => pc'[a] = "idle"]_vars

-----------------------------------------------------------------------------
(* Properties of the ( Seconds, NSeconds, Sign ) constructor *)

\* C18: HighPerTimer ( seconds, nanoseconds, false ) with non-negative
\* arguments inside the bounds succeeds and carries whole seconds out of the
\* nanoseconds: Seconds() = seconds + nanoseconds div ONE_BILLION and
\* NSeconds() = nanoseconds mod ONE_BILLION
C18_CtorCarries ==
    (/\ res.op = "HighPerTimer(sec,nsec,false)"
     /\ res.a >= 0 /\ res.b >= 0
     /\ res.a * ONE_BILLION + res.b <= MaxNSecs) =>
        /\ ~res.threw
        /\ Seconds(t) = res.a + res.b \div ONE_BILLION
        /\ NSeconds(t) = res.b % ONE_BILLION

\* a constructor call with a nanosecond part of ONE_BILLION or more succeeded
C18_Witness ==
    /\ res.op = "HighPerTimer(sec,nsec,false)"
    /\ res.b >= ONE_BILLION
    /\ ~res.threw
    /\ Seconds(t) = res.a + 1

-----------------------------------------------------------------------------
(* Properties of the coarse phase *)

\* C19: a sleep that finds its interrupted flag set at the check made under
\* HPmutex marks cancelled and does not perform the timed wait: it goes on
\* with the spin phase
C19_SetFlagSkipsWait ==
    [][\A a \in Sleepers :
           (/\ pc[a] = "check"
            /\ pc'[a] # "check"
            /\ mInterrupted[InstanceOf(a)])
           => /\ mCancelled'[InstanceOf(a)]
              /\ pc'[a] \notin {"wait_for", "waiting"}]_vars

\* C20: in every sleep entry point the coarse wait is entered if and only if
\* the requested interval to the deadline is positive and at least one jiffy,
\* whatever tick value the timer the sleep is called on holds
C20_CoarseByInterval ==
    \A a \in Sleepers :
        (pc[a] # "idle") =>
            (slp[a].coarse <=>
                 /\ slp[a].interval.num > 0
                 /\ slp[a].interval.num >= BusyNSeconds * slp[a].interval.den)

-----------------------------------------------------------------------------
(* Properties of the spin phase *)

\* C21: in the spin phase, once the interrupted flag of the instance is set,
\* the sleep returns after at most SPIN_CHECK_MASK + 1 ( 16 in the code )
\* further passes of the loop: at most SPIN_CHECK_MASK passes made with the
\* flag set do not return
C21_SpinReturnsWithinMask ==
    \A a \in Sleepers : slp[a].sinceInt <= SPIN_CHECK_MASK

\* a sleep has made SPIN_CHECK_MASK passes with the flag set, short of its target
C21_Witness ==
    \E a \in Sleepers :
        /\ pc[a] = "spin"
        /\ mInterrupted[InstanceOf(a)]
        /\ slp[a].sinceInt = SPIN_CHECK_MASK
        /\ GetTimerTics < slp[a].TargetTics

-----------------------------------------------------------------------------
(* Properties of the HPET descriptor, the bounds and the frequency measurement *)

\* the operations that may call InitHPFrequency
CalibrationOps == {"init", "SetTimerSource", "SetClockSkew"}

\* C22: every /dev/hpet descriptor the library opens is closed exactly once:
\* none is closed twice, and none is still open after the clean-up at exit
C22_EveryFdClosedOnce ==
    /\ \A fd \in DOMAIN fdCloses : fdCloses[fd] <= 1
    /\ ~Running => \A fd \in DOMAIN fdCloses : fdCloses[fd] = 1

\* C23: in every state HPTimer_MAX and HPTimer_MIN hold int64 max / 120 and
\* int64 min / 120 if the current source is the HPET, and the full int64 range
\* otherwise
C23_BoundsFollowSource ==
    IF HPTimerSource = "HPET"
    THEN /\ HPTics(HPTimer_MAX) = TruncDiv(INT64_MAX, HPET_BOUND_DIVISOR)
         /\ HPTics(HPTimer_MIN) = TruncDiv(INT64_MIN, HPET_BOUND_DIVISOR)
    ELSE /\ HPTics(HPTimer_MAX) = INT64_MAX
         /\ HPTics(HPTimer_MIN) = INT64_MIN

\* C24: one calibration request measures the TSC frequency at most three
\* times in total, and it throws only after the third measurement has failed
C24_AtMostThreeRuns ==
    (res.op \in CalibrationOps) =>
        /\ res.runs <= 3
        /\ res.threw => res.runs = 3

\* the samples of VecFreq that exceed the threshold
Peaks(VecFreq) == {i \in 1..Len(VecFreq) : IsPeak(VecFreq, VecFreq[i])}

\* C25: a measurement in which exactly one of the five samples is an outlier,
\* whatever its position, succeeds: it is not repeated and nothing is thrown
C25_SinglePeakSucceeds ==
    (/\ res.op \in CalibrationOps
     /\ res.runs > 0
     /\ Cardinality(Peaks(res.first)) = 1) =>
        res.runs = 1 /\ ~res.threw

\* C26: an InitHPETTimer call that has mapped the registers fails with
\* MC32BIT if and only if bit 13 of the general capabilities register is 0
C26_Bit13Decides ==
    (res.op \in {"init", "SetTimerSource"} /\ res.reason \in {"MC32BIT", "NONE"}) =>
        (res.reason = "MC32BIT" <=> (res.reg \div (2 ^ 13)) % 2 = 0)

C30_OwnRetryBudget ==
    (res.op \in CalibrationOps /\ res.threw) => res.runs = MAX_FREQ_ATTEMPTS + 1

-----------------------------------------------------------------------------
(* Properties of the kernel-HZ discovery *)

\* the classes with two observations
Voted == {c \in {"HZ100", "HZ250", "HZ300", "HZ1000"} :
             (IF c = "HZ100" THEN jiffy.count100
              ELSE IF c = "HZ250" THEN jiffy.count250
              ELSE IF c = "HZ300" THEN jiffy.count300
              ELSE jiffy.count1000) >= 2}

\* C27: the discovery makes at most ten trials; it goes on only while no class
\* has been observed twice; it ends with HPJiffies 1/100, 1/250, 1/300 or
\* 1/1000: that of the class observed twice, at its second observation, or
\* 1/250 after ten trials in which no class was observed twice
C27_JiffyDiscovery ==
    /\ jiffy.trials <= 10
    /\ jiffy.running => Voted = {} /\ HPJiffies = NoJiffies
    /\ ~jiffy.running =>
           /\ HPJiffies.num = 1 /\ HPJiffies.den \in {100, 250, 300, 1000}
           /\ \/ /\ Voted = {jiffy.latest}
                 /\ HPJiffies = [num |-> 1,
                                 den |-> IF jiffy.latest = "HZ100" THEN 100
                                         ELSE IF jiffy.latest = "HZ250" THEN 250
                                         ELSE IF jiffy.latest = "HZ300" THEN 300
                                         ELSE 1000]
              \/ /\ Voted = {}
                 /\ jiffy.trials = 10
                 /\ HPJiffies = [num |-> 1, den |-> 250]

\* HZ 300 was committed at its second observation, the trial before was of
\* another class
C27_Witness ==
    /\ ~jiffy.running
    /\ jiffy.count300 = 2
    /\ jiffy.latest = "HZ300"
    /\ jiffy.before \notin {"HZ300", "none"}

-----------------------------------------------------------------------------
(* Properties of a sleep that follows an Interrupt() *)

\* C29: an Interrupt() on the timer that has returned before a sleep on it
\* begins has no effect on that sleep: with no Interrupt() on the timer called
\* while it runs, the sleep has both flags reset after its entry and it does
\* not return before its target is reached
C29_EarlierInterruptIgnored ==
    \A a \in Sleepers :
        (slp[a].prior /\ ~slp[a].later) =>
            /\ pc[a] \notin {"idle", "reset"} =>
                   /\ ~mInterrupted[InstanceOf(a)]
                   /\ ~mCancelled[InstanceOf(a)]
            /\ slp[a].done => ~slp[a].early

\* a sleep begun after an Interrupt() on its timer has gone through the timed
\* wait to its timeout and returned at its target
C29_Witness ==
    \E a \in Sleepers :
        /\ slp[a].prior /\ ~slp[a].later
        /\ slp[a].done
        /\ slp[a].coarse
        /\ slp[a].woke = "timeout"
        /\ ~slp[a].early

====
